---- MODULE Spec2Model ----
(***************************************************************************)
(* The fact-verification feedback loop of the agentic-AI apps:             *)
(*   selection.py  extract_facts_from_summary, generate_post,              *)
(*                 verify_post_against_facts                               *)
(*   app.py        build_workflow (route_after_choice, route_after_verify) *)
(*   cli.py        run (search/summarize phase, choice, invoke loop,       *)
(*                 final report)                                           *)
(* Text is a sequence of one-character strings, so that the regular        *)
(* expressions of selection.py are evaluated character by character.       *)
(***************************************************************************)
EXTENDS Integers, Sequences, FiniteSets, TLC

VARIABLES
    pc,           \* position of cli.run / of the workflow invocation in progress
    state,        \* the `state` dict of cli.run
    wf,           \* the state dict of the workflow invocation in progress
    iteration,    \* the `iteration` variable of the for loop of cli.run
    genCalls,     \* completed generate_post calls of the session (history)
    verifyCalls,  \* completed verify_post_against_facts calls (history)
    outcome,      \* how the session ended (history)
    printed,      \* what the final report of cli.run printed
    lastDraft,    \* the text the last completed generate_post call produced (history)
    summaryIn,    \* input of a standalone extract_facts_from_summary call
    factsOut,     \* its result
    tracked_news, \* NewsTracker.tracked_news
    clock,        \* the calls made on the tracker so far: datetime.now()
    offered,      \* the (url, score) pairs handed to the tracker so far (history)
    dropped,      \* the articles the top-10 slice cut so far (history)
    snapshots,    \* TimeSeriesCollector.snapshots
    seriesClock,  \* the calls made on the collector so far: the timestamps
    lastSnapshot, \* the argument of the last add_snapshot call, and the
                  \* existing snapshot it found if any (history)
    historical_data, \* HistoricalDataCollector.historical_data
    collection,   \* the local variables of collect_historical_data
    historyCalls, \* the collect_historical_data calls made so far
    searchIn,     \* the state argument of a search_ai_news call
    aggregated,   \* the hits the queries of that call returned
    searchOut     \* the dict the call returned

cliVars == <<pc, state, wf, iteration, genCalls, verifyCalls, outcome, printed,
             lastDraft, summaryIn, factsOut>>

trackerVars == <<tracked_news, clock, offered, dropped>>

seriesVars == <<snapshots, seriesClock, lastSnapshot>>

historyVars == <<historical_data, collection, historyCalls>>

searchVars == <<searchIn, aggregated, searchOut>>

collectorVars == <<trackerVars, seriesVars, historyVars, searchVars>>

vars == <<cliVars, collectorVars>>

-----------------------------------------------------------------------------
(* Characters and the classes the regular expressions use.                 *)

UpperSeq == <<"A","B","C","D","E","F","G","H","I","J","K","L","M",
              "N","O","P","Q","R","S","T","U","V","W","X","Y","Z">>
LowerSeq == <<"a","b","c","d","e","f","g","h","i","j","k","l","m",
              "n","o","p","q","r","s","t","u","v","w","x","y","z">>
DigitSeq == <<"0","1","2","3","4","5","6","7","8","9">>

Range(f) == {f[i] : i \in DOMAIN f}

UpperChars == Range(UpperSeq)
LetterChars == Range(UpperSeq) \cup Range(LowerSeq)
DigitChars == Range(DigitSeq)

IsUpper(c) == c \in UpperChars
IsLetter(c) == c \in LetterChars
\* \s
IsSpace(c) == c \in {" ", "\n", "\t"}
\* \w (what \b looks at)
IsWordChar(c) == c \in LetterChars \cup DigitChars \cup {"_"}
\* [a-zA-Z0-9\-]
IsTailChar(c) == c \in LetterChars \cup DigitChars \cup {"-"}
\* [.!?]
IsSentenceEnd(c) == c \in {".", "!", "?"}

\* str.lower() of one character
LowerChar(c) ==
    IF IsUpper(c) THEN LowerSeq[CHOOSE i \in DOMAIN UpperSeq : UpperSeq[i] = c]
    ELSE c

\* str.lower()
Lower(s) == [i \in 1..Len(s) |-> LowerChar(s[i])]

\* needle in hay
Contains(hay, needle) ==
    \E i \in 1..(Len(hay) - Len(needle) + 1) :
        SubSeq(hay, i, i + Len(needle) - 1) = needle

\* sep.join(parts)
RECURSIVE Join(_, _)
Join(parts, sep) ==
    IF Len(parts) = 0 THEN <<>>
    ELSE IF Len(parts) = 1 THEN parts[1]
    ELSE parts[1] \o sep \o Join(Tail(parts), sep)

\* the least element of a non-empty set of positions
Min(S) == CHOOSE x \in S : \A y \in S : x <= y

\* first position >= i that does not hold a whitespace character
SpaceRunEnd(s, i) ==
    IF i > Len(s) THEN i
    ELSE Min({p \in i..Len(s) : ~IsSpace(s[p])} \cup {Len(s) + 1})

\* first position >= i that does not hold a character of [a-zA-Z]
LetterRunEnd(s, i) ==
    IF i > Len(s) THEN i
    ELSE Min({p \in i..Len(s) : ~IsLetter(s[p])} \cup {Len(s) + 1})

\* first position >= i that does not hold a character of [a-zA-Z0-9\-]
TailRunEnd(s, i) ==
    IF i > Len(s) THEN i
    ELSE Min({p \in i..Len(s) : ~IsTailChar(s[p])} \cup {Len(s) + 1})

\* first position >= i that holds a newline, or Len(s)+1
LineEnd(s, i) ==
    IF i > Len(s) THEN i
    ELSE Min({p \in i..Len(s) : s[p] = "\n"} \cup {Len(s) + 1})

\* \b between s[p-1] and s[p]
WordBoundary(s, p) ==
    LET left == p > 1 /\ p - 1 <= Len(s) /\ IsWordChar(s[p - 1])
        right == p >= 1 /\ p <= Len(s) /\ IsWordChar(s[p])
    IN left # right

\* len(s.split()): the number of whitespace-separated tokens
TokenCount(s) ==
    Cardinality({i \in 1..Len(s) :
        ~IsSpace(s[i]) /\ (i = 1 \/ IsSpace(s[i - 1]))})

\* s.strip(chars)
StripChars(s, chars) ==
    LET keep == {i \in 1..Len(s) : s[i] \notin chars}
    IN IF keep = {} THEN <<>>
       ELSE SubSeq(s, CHOOSE i \in keep : \A j \in keep : i <= j,
                      CHOOSE i \in keep : \A j \in keep : i >= j)

-----------------------------------------------------------------------------
(* selection.py: extract_facts_from_summary                                *)

\* the [:12] of the return statement
MaxFacts == 12

\* re.findall(r"^-\s+.*$", summary, flags=re.MULTILINE), scanning from i:
\* a dash at the start of a line, the longest whitespace run after it (it may
\* run over newlines), then the rest of that line
RECURSIVE FindBullets(_, _)
FindBullets(s, i) ==
    LET starts == {p \in i..Len(s) : /\ (p = 1 \/ s[p - 1] = "\n")
                                      /\ s[p] = "-"
                                      /\ SpaceRunEnd(s, p + 1) > p + 1}
    IN IF starts = {} THEN <<>>
       ELSE LET p == Min(starts)
                e == LineEnd(s, SpaceRunEnd(s, p + 1))
            IN <<SubSeq(s, p, e - 1)>> \o FindBullets(s, e)

\* re.split(r"(?<=[.!?])\s+", summary), the text from position from on: the
\* separators are the whitespace runs that follow one of . ! ?
RECURSIVE SplitSentences(_, _)
SplitSentences(s, from) ==
    LET seps == {p \in from..Len(s) :
                    p > 1 /\ IsSentenceEnd(s[p - 1]) /\ IsSpace(s[p])}
    IN IF seps = {} THEN <<SubSeq(s, from, Len(s))>>
       ELSE <<SubSeq(s, from, Min(seps) - 1)>>
            \o SplitSentences(s, SpaceRunEnd(s, Min(seps)))

\* BulletFacts that keeps a bullet of 2 tokens
RECURSIVE BulletFactsTwoTokens(_)
BulletFactsTwoTokens(bullets) ==
    IF bullets = <<>> THEN <<>>
    ELSE LET clean == StripChars(Head(bullets), {"-", " "})
         IN (IF TokenCount(clean) >= 2 THEN <<clean>> ELSE <<>>)
            \o BulletFactsTwoTokens(Tail(bullets))

\* the loop over bullets: clean = b.strip("- "), kept with 3 tokens or more
RECURSIVE BulletFacts(_)
BulletFacts(bullets) ==
    IF bullets = <<>> THEN <<>>
    ELSE LET clean == StripChars(Head(bullets), {"-", " "})
         IN (IF TokenCount(clean) >= 3 THEN <<clean>> ELSE <<>>)
            \o BulletFacts(Tail(bullets))

\* the loop over sentences: s.strip(), kept with 5 tokens or more when not
\* already in facts
RECURSIVE SentenceFacts(_, _)
SentenceFacts(sentences, facts) ==
    IF sentences = <<>> THEN facts
    ELSE LET st == StripChars(Head(sentences), {" ", "\n", "\t"})
         IN SentenceFacts(Tail(sentences),
                IF TokenCount(st) >= 5 /\ st \notin Range(facts)
                THEN Append(facts, st) ELSE facts)

\* Deduplicate that keeps every candidate
DeduplicateNothing(facts, uniq) == uniq \o facts

\* the uniq / seen loop
RECURSIVE Deduplicate(_, _)
Deduplicate(facts, uniq) ==
    IF facts = <<>> THEN uniq
    ELSE Deduplicate(Tail(facts),
            IF Head(facts) \notin Range(uniq)
            THEN Append(uniq, Head(facts)) ELSE uniq)

\* Truncate without the limit
TruncateNothing(uniq, n) == uniq

\* uniq[:n]
Truncate(uniq, n) == SubSeq(uniq, 1, IF Len(uniq) < n THEN Len(uniq) ELSE n)

\* uniq, before the limit is applied
UniqueFacts(summary) ==
    LET bullets == FindBullets(summary, 1)
        sentences == SplitSentences(summary, 1)
        facts == SentenceFacts(sentences, BulletFacts(bullets))
    IN Deduplicate(facts, <<>>)

extract_facts_from_summary(summary) ==
    Truncate(UniqueFacts(summary), MaxFacts)

-----------------------------------------------------------------------------
(* selection.py: verify_post_against_facts                                 *)

\* dict.get(key, default)
Get(d, key, default) == IF key \in DOMAIN d THEN d[key] ELSE default

\* (?:\s+[A-Z][a-zA-Z0-9\-]+)+\b from position j, where a word has just ended
\* and n groups are matched: the end of the match the backtracking search
\* returns (0: none). It tries, in this order, one more group with its word
\* as long as possible and the rest after it, the same group with a shorter
\* word followed by \b, and no further group, followed by \b.
RECURSIVE GroupsEnd(_, _, _)
GroupsEnd(s, j, n) ==
    LET k == SpaceRunEnd(s, j)
        m == IF k <= Len(s) /\ IsUpper(s[k]) THEN TailRunEnd(s, k + 1) ELSE 0
        group == k > j /\ m >= k + 2
        deeper == IF group THEN GroupsEnd(s, m, n + 1) ELSE 0
        shorter == IF group
                   THEN {e \in (k + 2)..(m - 1) : WordBoundary(s, e)} ELSE {}
    IN IF deeper > 0 THEN deeper
       ELSE IF shorter # {} THEN CHOOSE e \in shorter : \A f \in shorter : f <= e
       ELSE IF n >= 1 /\ WordBoundary(s, j) THEN j
       ELSE 0

\* \b([A-Z][a-zA-Z]+(?:\s+[A-Z][a-zA-Z0-9\-]+)+)\b matched at position i:
\* the position after the match, 0 when there is none
PhraseEnd(s, i) ==
    IF WordBoundary(s, i) /\ IsUpper(s[i]) /\ LetterRunEnd(s, i + 1) >= i + 2
    THEN GroupsEnd(s, LetterRunEnd(s, i + 1), 0)
    ELSE 0

\* re.findall of that expression on post, scanning from i
RECURSIVE FindCapitalPhrases(_, _)
FindCapitalPhrases(s, i) ==
    LET starts == {p \in i..Len(s) : PhraseEnd(s, p) > 0}
    IN IF starts = {} THEN <<>>
       ELSE <<SubSeq(s, Min(starts), PhraseEnd(s, Min(starts)) - 1)>>
            \o FindCapitalPhrases(s, PhraseEnd(s, Min(starts)))

\* " \n".join(facts).lower()
FactText(facts) == Lower(Join(facts, <<" ", "\n">>))

\* Hallucinations comparing the phrase as written, not lowered
HallucinationsCaseSensitive(capital_phrases, fact_text) ==
    SelectSeq(capital_phrases, LAMBDA p : ~Contains(fact_text, p))

\* Hallucinations that takes every phrase as supported when there is no fact
HallucinationsNoneWithoutFacts(capital_phrases, fact_text) ==
    IF fact_text = <<>> THEN <<>>
    ELSE SelectSeq(capital_phrases, LAMBDA p : ~Contains(fact_text, Lower(p)))

\* Hallucinations with the test inverted: flags the phrases the facts hold
HallucinationsInverted(capital_phrases, fact_text) ==
    SelectSeq(capital_phrases, LAMBDA p : Contains(fact_text, Lower(p)))

\* the loop over capital_phrases
Hallucinations(capital_phrases, fact_text) ==
    SelectSeq(capital_phrases, LAMBDA p : ~Contains(fact_text, Lower(p)))

\* the text "Maximum iterations reached"
MaxIterationsPhrase ==
    <<"M","a","x","i","m","u","m"," ","i","t","e","r","a","t","i","o","n","s",
      " ","r","e","a","c","h","e","d">>

\* verify_post_against_facts whose max-iterations branch leaves
\* iteration_count as it is
verify_not_counting_at_max(st) ==
    LET facts == Get(st, "facts", <<>>)
        iteration_count == Get(st, "iteration_count", 0)
        max_iterations == Get(st, "max_iterations", 3)
        capital_phrases == FindCapitalPhrases(Get(st, "post", <<>>), 1)
        hallucinations == Hallucinations(capital_phrases, FactText(facts))
    IN IF iteration_count >= max_iterations
       THEN [st EXCEPT
               !.verification =
                   [ok |-> FALSE,
                    missing_phrases |-> <<MaxIterationsPhrase>>,
                    checked_phrases |-> <<>>,
                    facts_used |-> facts,
                    max_iterations_reached |-> TRUE,
                    message |-> "Reliable information not found"]]
       ELSE [st EXCEPT
               !.verification =
                   [ok |-> Len(hallucinations) = 0,
                    missing_phrases |-> hallucinations,
                    checked_phrases |-> capital_phrases,
                    facts_used |-> facts,
                    max_iterations_reached |-> FALSE,
                    iteration |-> iteration_count + 1],
               !.iteration_count = iteration_count + 1]

\* verify_post_against_facts whose max-iterations branch does not mark the
\* verdict
verify_not_marking_at_max(st) ==
    LET facts == Get(st, "facts", <<>>)
        iteration_count == Get(st, "iteration_count", 0)
        max_iterations == Get(st, "max_iterations", 3)
        capital_phrases == FindCapitalPhrases(Get(st, "post", <<>>), 1)
        hallucinations == Hallucinations(capital_phrases, FactText(facts))
    IN IF iteration_count >= max_iterations
       THEN [st EXCEPT
               !.verification =
                   [ok |-> FALSE,
                    missing_phrases |-> <<MaxIterationsPhrase>>,
                    checked_phrases |-> <<>>,
                    facts_used |-> facts,
                    max_iterations_reached |-> FALSE,
                    message |-> "Reliable information not found"],
               !.iteration_count = iteration_count + 1]
       ELSE [st EXCEPT
               !.verification =
                   [ok |-> Len(hallucinations) = 0,
                    missing_phrases |-> hallucinations,
                    checked_phrases |-> capital_phrases,
                    facts_used |-> facts,
                    max_iterations_reached |-> FALSE,
                    iteration |-> iteration_count + 1],
               !.iteration_count = iteration_count + 1]

\* verify_post_against_facts without the max-iterations branch
verify_examining_at_max(st) ==
    LET facts == Get(st, "facts", <<>>)
        iteration_count == Get(st, "iteration_count", 0)
        capital_phrases == FindCapitalPhrases(Get(st, "post", <<>>), 1)
        hallucinations == Hallucinations(capital_phrases, FactText(facts))
    IN [st EXCEPT
          !.verification =
              [ok |-> Len(hallucinations) = 0,
               missing_phrases |-> hallucinations,
               checked_phrases |-> capital_phrases,
               facts_used |-> facts,
               max_iterations_reached |-> FALSE,
               iteration |-> iteration_count + 1],
          !.iteration_count = iteration_count + 1]

\* verify_post_against_facts that also counts max_iterations down
verify_counting_down(st) ==
    LET facts == Get(st, "facts", <<>>)
        iteration_count == Get(st, "iteration_count", 0)
        max_iterations == Get(st, "max_iterations", 3)
        capital_phrases == FindCapitalPhrases(Get(st, "post", <<>>), 1)
        hallucinations == Hallucinations(capital_phrases, FactText(facts))
    IN IF iteration_count >= max_iterations
       THEN [st EXCEPT
               !.verification =
                   [ok |-> FALSE,
                    missing_phrases |-> <<MaxIterationsPhrase>>,
                    checked_phrases |-> <<>>,
                    facts_used |-> facts,
                    max_iterations_reached |-> TRUE,
                    message |-> "Reliable information not found"],
               !.iteration_count = iteration_count + 1,
               !.max_iterations = max_iterations - 1]
       ELSE [st EXCEPT
               !.verification =
                   [ok |-> Len(hallucinations) = 0,
                    missing_phrases |-> hallucinations,
                    checked_phrases |-> capital_phrases,
                    facts_used |-> facts,
                    max_iterations_reached |-> FALSE,
                    iteration |-> iteration_count + 1],
               !.iteration_count = iteration_count + 1,
               !.max_iterations = max_iterations - 1]

verify_post_against_facts(st) ==
    LET post == Get(st, "post", <<>>)
        facts == Get(st, "facts", <<>>)
        iteration_count == Get(st, "iteration_count", 0)
        max_iterations == Get(st, "max_iterations", 3)
        capital_phrases == FindCapitalPhrases(post, 1)
        hallucinations == Hallucinations(capital_phrases, FactText(facts))
    IN IF iteration_count >= max_iterations
       THEN [st EXCEPT
               !.verification =
                   [ok |-> FALSE,
                    missing_phrases |-> <<MaxIterationsPhrase>>,
                    checked_phrases |-> <<>>,
                    facts_used |-> facts,
                    max_iterations_reached |-> TRUE,
                    message |-> "Reliable information not found"],
               !.iteration_count = iteration_count + 1]
       ELSE [st EXCEPT
               !.verification =
                   [ok |-> Len(hallucinations) = 0,
                    missing_phrases |-> hallucinations,
                    checked_phrases |-> capital_phrases,
                    facts_used |-> facts,
                    max_iterations_reached |-> FALSE,
                    iteration |-> iteration_count + 1],
               !.iteration_count = iteration_count + 1]

-----------------------------------------------------------------------------
(* selection.py: generate_post                                             *)

\* {}
EmptyDict == <<>>

\* the summary of the first entry of state["summaries"], not of the chosen one
TopSummary(st) ==
    IF Len(Get(st, "summaries", <<>>)) = 0 THEN <<>>
    ELSE Get(st.summaries[1], "summary", <<>>)

\* the summary generate_post extracts the facts from
ChosenSummary(st) ==
    LET chosen == IF Get(st, "chosen", EmptyDict) = EmptyDict
                  THEN EmptyDict ELSE st.chosen
    IN Get(chosen, "summary", <<>>)

\* generate_post that keeps a post the state already holds
generate_post_keeping_post(st, post) ==
    LET facts_list == extract_facts_from_summary(ChosenSummary(st))
    IN [st EXCEPT !.post = IF st.post = <<>> THEN post ELSE st.post,
                  !.facts = facts_list]

\* generate_post with the text the chain returned
generate_post(st, post) ==
    LET facts_list == extract_facts_from_summary(ChosenSummary(st))
    IN [st EXCEPT !.post = post, !.facts = facts_list]

-----------------------------------------------------------------------------
(* app.py: the routing functions of build_workflow                         *)

\* route_after_choice without the test of 'chosen'
route_after_choice_always_generating(st) == "generate_post"

route_after_choice(st) ==
    IF Get(st, "chosen", EmptyDict) # EmptyDict THEN "generate_post"
    ELSE "__end__"

\* route_after_verify without the test of the verdict
route_after_verify_ignoring_ok(st) ==
    IF Get(st, "iteration_count", 0) >= Get(st, "max_iterations", 3)
    THEN "__end__"
    ELSE "generate_post"

route_after_verify(st) ==
    LET verification == Get(st, "verification", EmptyDict)
        iteration_count == Get(st, "iteration_count", 0)
        max_iterations == Get(st, "max_iterations", 3)
    IN IF Get(verification, "ok", FALSE) \/ iteration_count >= max_iterations
       THEN "__end__"
       ELSE "generate_post"

-----------------------------------------------------------------------------
(* The inputs: what the collaborators (search, summarizer, text generator  *)
(* and the user) may return.                                               *)

\* "max_iterations": 3 of the initial state of cli.run
StateMaxIterations == 3
\* max_iterations = 3 of the loop of cli.run
CliMaxIterations == 3
\* the choices of Prompt.ask in cli.run: "1", "2", "3"
MaxChoice == 3

\* a generated post is at most MaxPostPieces pieces joined by blanks, one
\* of two longer posts that hold two phrases, or a draft of Scenario B or C
MaxPostPieces == 2

PostPieces ==
    { <<"A","b"," ","C","d">>,         \* Ab Cd
      <<"C","d"," ","A","b","-">>,     \* Cd Ab-
      <<"x">> }                        \* x

\* all sequences of at most n elements of S
RECURSIVE SeqsUpTo(_, _)
SeqsUpTo(S, n) ==
    IF n = 0 THEN {<<>>}
    ELSE LET shorter == SeqsUpTo(S, n - 1)
         IN shorter \cup {Append(q, x) : q \in shorter, x \in S}

\* the draft of Scenario B: "Microsoft Azure"
ScenarioBDraft ==
    <<"M","i","c","r","o","s","o","f","t"," ","A","z","u","r","e">>

\* the draft of Scenario C: "Microsoft Azure AI updates are significant."
ScenarioCDraft ==
    <<"M","i","c","r","o","s","o","f","t"," ","A","z","u","r","e"," ",
      "A","I"," ","u","p","d","a","t","e","s"," ","a","r","e"," ","s",
      "i","g","n","i","f","i","c","a","n","t",".">>

\* the fact of Scenario C: "Microsoft announced Azure AI updates"
ScenarioCFact ==
    <<"M","i","c","r","o","s","o","f","t"," ","a","n","n","o","u","n",
      "c","e","d"," ","A","z","u","r","e"," ","A","I"," ","u","p","d",
      "a","t","e","s">>

Posts ==
    {Join(q, <<" ">>) : q \in SeqsUpTo(PostPieces, MaxPostPieces)}
    \cup { <<"A","b"," ","C","d"," ","x"," ","C","d"," ","A","b">>,
           <<"C","d"," ","A","b",","," ","A","b"," ","\n","E","f">>,
           ScenarioBDraft, ScenarioCDraft }

\* the summaries the summarizer may produce:
\*   "- x ab cd ef.\nAb cd is x x."    "Cd ab x x x! Ef x."    ""
\* and the fact of Scenario C, a summary of one sentence
SummaryPool ==
    << [title |-> "t1", url |-> "u1",
        summary |-> <<"-"," ","x"," ","a","b"," ","c","d"," ","e","f",".","\n",
                      "A","b"," ","c","d"," ","i","s"," ","x"," ","x",".">>],
       [title |-> "t2", url |-> "u2",
        summary |-> <<"C","d"," ","a","b"," ","x"," ","x"," ","x","!"," ",
                      "E","f"," ","x",".">>],
       [title |-> "t3", url |-> "u3", summary |-> <<>>],
       [title |-> "t4", url |-> "u4", summary |-> ScenarioCFact] >>

\* what summarize_results may leave in state["summaries"]: at most
\* MaxSummaries summaries
SummaryLists ==
    { <<>>,
      <<SummaryPool[1]>>,
      <<SummaryPool[4]>>,
      <<SummaryPool[2], SummaryPool[3], SummaryPool[1]>> }

-----------------------------------------------------------------------------
(* cli.py: run, and the workflow invocations it makes                      *)

\* the state dict run starts from
InitialState ==
    [summaries |-> <<>>,
     chosen |-> EmptyDict,
     post |-> <<>>,
     facts |-> <<>>,
     verification |-> EmptyDict,
     iteration_count |-> 0,
     max_iterations |-> StateMaxIterations]

\* nothing of the final report is printed yet
NothingPrinted == [headline |-> "", post_shown |-> FALSE, label |-> ""]

\* NewsTracker.__init__ without a data file
TrackerInit ==
    /\ tracked_news = <<>>
    /\ clock = 0
    /\ offered = {}
    /\ dropped = {}

\* TimeSeriesCollector.__init__ without a snapshots file
SeriesInit ==
    /\ snapshots = <<>>
    /\ seriesClock = 0
    /\ lastSnapshot = <<>>

\* the local variables of collect_historical_data while no call is under way
NoCollection ==
    [phase |-> "idle", days |-> 0, force_recollect |-> FALSE, i |-> 0,
     existing_dates |-> {}, collected_days |-> <<>>, failed_days |-> <<>>,
     skipped_days |-> {}, before |-> <<>>]

\* HistoricalDataCollector.__init__ without a data file
HistoryInit ==
    /\ historical_data = <<>>
    /\ collection = NoCollection
    /\ historyCalls = 0

\* no search_ai_news call made yet
SearchInit ==
    /\ searchIn = <<>>
    /\ aggregated = <<>>
    /\ searchOut = <<>>

CollectorsInit == TrackerInit /\ SeriesInit /\ HistoryInit /\ SearchInit

Init ==
    /\ pc = "phase1"
    /\ state = InitialState
    /\ wf = InitialState
    /\ iteration = 0
    /\ genCalls = 0
    /\ verifyCalls = 0
    /\ outcome = "none"
    /\ printed = NothingPrinted
    /\ lastDraft = <<>>
    /\ summaryIn = <<>>
    /\ factsOut = <<>>
    /\ CollectorsInit

\* app.invoke(state, ...): the workflow starts from START with the caller's
\* state
Invoke ==
    /\ pc \in {"phase1", "loop"}
    /\ pc' = IF pc = "phase1" THEN "phase1_search" ELSE "loop_search"
    /\ wf' = state
    /\ UNCHANGED <<state, iteration, genCalls, verifyCalls, outcome, printed,
                   lastDraft, summaryIn,
                   factsOut,
                   collectorVars>>

\* the position of the workflow within the invocation made at cli position p
At(p, node) ==
    IF p \in {"phase1_search", "phase1_generate_post", "phase1_verify",
              "phase1___end__"}
    THEN "phase1_" \o node ELSE "loop_" \o node

\* the nodes before the choice (search, summarize, and the nodes that pass
\* the state through), then route_after_choice. Every invocation starts from
\* START, so the invocations of the loop run these nodes again and may leave
\* other summaries in the state; there the collaborators are taken to
\* return (what they raise is outside the generate/verify loop).
SearchSummarize ==
    /\ pc \in {"phase1_search", "loop_search"}
    /\ \E sl \in SummaryLists :
         /\ wf' = [wf EXCEPT !.summaries = sl]
         /\ pc' = At(pc, route_after_choice(wf'))
    /\ UNCHANGED <<state, iteration, genCalls, verifyCalls, outcome, printed,
                   lastDraft, summaryIn,
                   factsOut,
                   collectorVars>>

\* search or summarize raises in phase 1: run reports it and returns
SearchSummarizeRaises ==
    /\ pc = "phase1_search"
    /\ pc' = "done"
    /\ UNCHANGED <<state, wf, iteration, genCalls, verifyCalls, outcome,
                   printed, lastDraft, summaryIn,
                   factsOut,
                   collectorVars>>

\* the generate_post node; its edge leads to verify
GeneratePost ==
    /\ pc \in {"phase1_generate_post", "loop_generate_post"}
    /\ \E post \in Posts :
         /\ wf' = generate_post(wf, post)
         /\ lastDraft' = post
    /\ genCalls' = genCalls + 1
    /\ pc' = At(pc, "verify")
    /\ UNCHANGED <<state, iteration, verifyCalls, outcome, printed,
                   summaryIn, factsOut,
                   collectorVars>>

\* GeneratePostRaises counting the failed attempt as an iteration
GeneratePostRaisesCounted ==
    /\ pc \in {"phase1_generate_post", "loop_generate_post"}
    /\ pc' = "error"
    /\ outcome' = "GenerationError"
    /\ wf' = [wf EXCEPT !.iteration_count = @ + 1]
    /\ UNCHANGED <<state, iteration, genCalls, verifyCalls, printed,
                   lastDraft, summaryIn, factsOut,
                   collectorVars>>

\* the chain of generate_post raises: nothing in run catches it
GeneratePostRaises ==
    /\ pc \in {"phase1_generate_post", "loop_generate_post"}
    /\ pc' = "error"
    /\ outcome' = "GenerationError"
    /\ UNCHANGED <<state, wf, iteration, genCalls, verifyCalls, printed,
                   lastDraft, summaryIn,
                   factsOut,
                   collectorVars>>

\* the verify node, then route_after_verify
Verify ==
    /\ pc \in {"phase1_verify", "loop_verify"}
    /\ wf' = verify_post_against_facts(wf)
    /\ verifyCalls' = verifyCalls + 1
    /\ pc' = At(pc, route_after_verify(wf'))
    /\ UNCHANGED <<state, iteration, genCalls, outcome, printed,
                   lastDraft, summaryIn,
                   factsOut,
                   collectorVars>>

\* the first invocation returns: run stops when there are no summaries
ReturnPhase1 ==
    /\ pc = "phase1___end__"
    /\ state' = wf
    /\ pc' = IF Len(Get(wf, "summaries", <<>>)) = 0 THEN "done" ELSE "choose"
    /\ UNCHANGED <<wf, iteration, genCalls, verifyCalls, outcome, printed,
                   lastDraft, summaryIn,
                   factsOut,
                   collectorVars>>

\* chosen = summaries[int(choice) - 1]; state.update({"chosen": chosen}); the
\* for loop starts. An index past the end of the list raises IndexError.
Choose ==
    /\ pc = "choose"
    /\ \E choice \in 1..MaxChoice :
         IF choice <= Len(state.summaries)
         THEN /\ state' = [state EXCEPT !.chosen = state.summaries[choice]]
              /\ pc' = "loop"
              /\ outcome' = outcome
         ELSE /\ state' = state
              /\ pc' = "error"
              /\ outcome' = "IndexError"
    /\ iteration' = 0
    /\ UNCHANGED <<wf, genCalls, verifyCalls, printed, lastDraft, summaryIn,
                   factsOut,
                   collectorVars>>

\* an invocation of the loop returns: the rest of the loop body, and the
\* loop's next step
ReturnLoop ==
    /\ pc = "loop___end__"
    /\ state' = wf
    /\ LET verification == Get(wf, "verification", EmptyDict)
       IN IF Get(verification, "ok", FALSE)
          THEN /\ pc' = "report"
               /\ outcome' = "Passed"
               /\ iteration' = iteration
          ELSE IF Get(verification, "max_iterations_reached", FALSE)
          THEN /\ pc' = "report"
               /\ outcome' = "Exhausted"
               /\ iteration' = iteration
          ELSE IF iteration + 1 < CliMaxIterations
          THEN /\ pc' = "loop"
               /\ outcome' = outcome
               /\ iteration' = iteration + 1
          ELSE /\ pc' = "report"
               /\ outcome' = "LoopEnded"
               /\ iteration' = iteration
    /\ UNCHANGED <<wf, genCalls, verifyCalls, printed, lastDraft, summaryIn,
                   factsOut,
                   collectorVars>>

\* Report without the test of max_iterations_reached
ReportIgnoringExhausted ==
    /\ pc = "report"
    /\ printed' =
         [headline |-> "YOUR LINKEDIN POST",
          post_shown |-> TRUE,
          label |-> IF Get(Get(state, "verification", EmptyDict), "ok", FALSE)
                    THEN "Post verified - all claims are fact-checked"
                    ELSE "Some phrases need verification"]
    /\ pc' = "done"
    /\ UNCHANGED <<state, wf, iteration, genCalls, verifyCalls, outcome,
                   lastDraft, summaryIn, factsOut,
                   collectorVars>>

\* the report after the loop
Report ==
    /\ pc = "report"
    /\ LET verification == Get(state, "verification", EmptyDict)
       IN printed' =
            IF Get(verification, "max_iterations_reached", FALSE)
            THEN [headline |-> "RELIABLE INFORMATION NOT FOUND",
                  post_shown |-> FALSE,
                  label |-> ""]
            ELSE [headline |-> "YOUR LINKEDIN POST",
                  post_shown |-> TRUE,
                  label |-> IF Get(verification, "ok", FALSE)
                            THEN "Post verified - all claims are fact-checked"
                            ELSE "Some phrases need verification"]
    /\ pc' = "done"
    /\ UNCHANGED <<state, wf, iteration, genCalls, verifyCalls, outcome,
                   lastDraft, summaryIn, factsOut,
                   collectorVars>>

Next ==
    \/ Invoke
    \/ SearchSummarize
    \/ SearchSummarizeRaises
    \/ GeneratePost
    \/ GeneratePostRaises
    \/ Verify
    \/ ReturnPhase1
    \/ Choose
    \/ ReturnLoop
    \/ Report

Spec == Init /\ [][Next]_vars

-----------------------------------------------------------------------------
(* The verification session: the generate_post and verify calls made for   *)
(* one chosen source.                                                      *)

\* a source is chosen: the session has started
SessionStarted == Get(state, "chosen", EmptyDict) # EmptyDict

\* run has ended, normally or by an exception
SessionOver == SessionStarted /\ pc \in {"done", "error"}

\* the loop of run is over and its verdict is the final one
LoopOver == SessionStarted /\ pc \in {"report", "done"}

\* the post in wf is the one the verdict in wf is about
Verified == genCalls > 0 /\ verifyCalls = genCalls

\* C1: every session ends in exactly one of Passed, Exhausted and
\* GenerationError, and makes at most max_iterations generate_post calls and
\* at most max_iterations verify calls.
C1_SessionEndsWithinBudget ==
    /\ SessionOver => outcome \in {"Passed", "Exhausted", "GenerationError"}
    /\ genCalls <= state.max_iterations
    /\ verifyCalls <= state.max_iterations

\* C2: in every reachable state iteration_count <= max_iterations, in the
\* workflow's state and in the state run holds.
C2_IterationCountWithinMax ==
    /\ wf.iteration_count <= wf.max_iterations
    /\ state.iteration_count <= state.max_iterations

\* C3: iteration_count equals the number of completed verify calls of the
\* session (in the workflow's state at every point, in the state run holds
\* whenever no invocation is in progress), and a verdict that carries an
\* 'iteration' field carries the iteration_count of the state it is in.
C3_IterationCountCountsVerifies ==
    /\ wf.iteration_count = verifyCalls
    /\ pc \in {"phase1", "choose", "loop", "report", "done"}
          => state.iteration_count = verifyCalls
    /\ \A st \in {wf, state} :
          "iteration" \in DOMAIN st.verification
              => st.verification.iteration = st.iteration_count

\* C3 witness: the verify call on the max-iterations branch has completed as
\* the fourth call of the session, after three calls on the normal branch.
C3_Witness ==
    /\ Get(wf.verification, "max_iterations_reached", FALSE)
    /\ verifyCalls = StateMaxIterations + 1
    /\ wf.iteration_count = verifyCalls

\* C4: a session that ends Exhausted has made exactly 3 generate/verify
\* cycles and ends with iteration_count = 3.
C4_ExhaustedAfterThreeCycles ==
    (LoopOver /\ outcome = "Exhausted")
        => /\ genCalls = 3
           /\ verifyCalls = 3
           /\ state.iteration_count = 3

\* C5: the step in which generate_post raises leaves post, facts,
\* verification and iteration_count (the whole workflow state and the state
\* of run) and the call counts as they were, and no step follows it.
C5_GenerationErrorEndsSession ==
    [][/\ outcome # "GenerationError"
       /\ outcome' = "GenerationError"
            => /\ wf' = wf
               /\ state' = state
               /\ genCalls' = genCalls
               /\ verifyCalls' = verifyCalls
               /\ pc' = "error"]_vars

\* C5 witness: generate_post has raised in the second iteration, after one
\* completed generate/verify cycle.
C5_Witness ==
    /\ outcome = "GenerationError"
    /\ genCalls = 1
    /\ verifyCalls = 1
    /\ wf.iteration_count = 1
    /\ wf.post = lastDraft

\* phrase p occurs in the facts' text, compared case-insensitively
Supported(p, facts) ==
    \E i \in 1..Len(FactText(facts)) :
        /\ i + Len(p) - 1 <= Len(FactText(facts))
        /\ \A k \in 1..Len(p) : FactText(facts)[i + k - 1] = LowerChar(p[k])

\* the verdict of st says ok exactly when every capitalized phrase of the
\* post is supported, and lists exactly the unsupported ones, in order
VerdictFollowsPhrases(st) ==
    LET phrases == FindCapitalPhrases(st.post, 1)
    IN /\ st.verification.ok
            = (\A i \in 1..Len(phrases) : Supported(phrases[i], st.facts))
       /\ st.verification.missing_phrases
            = SelectSeq(phrases, LAMBDA p : ~Supported(p, st.facts))

C7_ExhaustedVerdictMarked ==
    (LoopOver /\ ~Get(state.verification, "ok", FALSE))
        => /\ outcome = "Exhausted"
           /\ Get(state.verification, "max_iterations_reached", FALSE)
           /\ Get(state.verification, "message", "")
                 = "Reliable information not found"
           /\ state.post = lastDraft

\* C7 witness: the loop is over with a failing verdict.
C7_Witness ==
    /\ LoopOver
    /\ ~Get(state.verification, "ok", FALSE)
    /\ genCalls > 0

\* C8: the report says 'Post verified' only for a verdict with ok = true,
\* and for an Exhausted session it is the 'not found' report, without the
\* post.
C8_ExhaustedNeverShownVerified ==
    (SessionStarted /\ pc = "done")
        => /\ printed.label = "Post verified - all claims are fact-checked"
                => Get(state.verification, "ok", FALSE)
           /\ outcome = "Exhausted"
                => /\ printed.headline = "RELIABLE INFORMATION NOT FOUND"
                   /\ ~printed.post_shown
                   /\ printed.label = ""

\* C8 witness: the report of an Exhausted session is printed.
C8_Witness ==
    /\ pc = "done"
    /\ outcome = "Exhausted"
    /\ printed.headline = "RELIABLE INFORMATION NOT FOUND"

\* C10: every generate_post call of a session after the first leaves in
\* 'facts' the list the call before it left there.
C10_FactsSameInEveryIteration ==
    [][(genCalls >= 1 /\ genCalls' = genCalls + 1)
          => wf'.facts = wf.facts]_vars

\* C10 witness: the facts were computed four times, the last time by a
\* second invocation, and are not empty.
C10_Witness ==
    /\ genCalls = StateMaxIterations + 1
    /\ Len(wf.facts) > 0

-----------------------------------------------------------------------------
(* extract_facts_from_summary called on its own, on summaries of up to     *)
(* MaxBullets plain bullets, MaxBullets bullets that end in a full stop    *)
(* and MaxSentences sentences, one per line.                               *)

MaxBullets == 7
MaxSentences == 7

\* the word of line i: a letter of its own, or the same letter on every line
LineWord(i, same) == IF same THEN <<"a">> ELSE <<LowerSeq[i]>>

\* "- w b c"
PlainBullet(i, same) == <<"-", " ">> \o LineWord(i, same) \o <<" ","b"," ","c">>
\* "- w b c d."
StoppedBullet(i, same) ==
    <<"-", " ">> \o LineWord(i, same) \o <<" ","b"," ","c"," ","d",".">>
\* "w b c d e."
LongSentence(i, same) ==
    LineWord(i, same) \o <<" ","b"," ","c"," ","d"," ","e",".">>

SummaryOf(nb, ns, nl, same) ==
    Join([i \in 1..(nb + ns + nl) |->
            IF i <= nb THEN PlainBullet(i, same)
            ELSE IF i <= nb + ns THEN StoppedBullet(i, same)
            ELSE LongSentence(i, same)],
         <<"\n">>)

SummaryInputs ==
    {SummaryOf(nb, ns, nl, same) :
        nb \in 0..MaxBullets, ns \in 0..MaxBullets, nl \in 0..MaxSentences,
        same \in BOOLEAN}

\* the summary of Scenario A:
\*   "- Revenue grew 40%.\n- Microsoft announced a new product."
ScenarioASummary ==
    <<"-"," ","R","e","v","e","n","u","e"," ","g","r","e","w"," ","4",
      "0","%",".","\n","-"," ","M","i","c","r","o","s","o","f","t",
      " ","a","n","n","o","u","n","c","e","d"," ","a"," ","n","e","w",
      " ","p","r","o","d","u","c","t",".">>

\* summaries of at most MaxMixedLines lines, each a bullet or a sentence
\* around the token thresholds, joined by line breaks or by blanks
MaxMixedLines == 3

MixedLines ==
    { <<"-"," ","w"," ","b">>,                          \* - w b
      <<"-"," ","w"," ","b"," ","c">>,                  \* - w b c
      <<"-"," ","v"," ","b"," ","c"," ","-">>,          \* - v b c -
      <<"w"," ","b"," ","c"," ","d",".">>,              \* w b c d.
      <<"v"," ","b"," ","c"," ","d"," ","e","!">> }     \* v b c d e!

MixedInputs ==
    {Join(q, sep) : q \in SeqsUpTo(MixedLines, MaxMixedLines),
                    sep \in {<<"\n">>, <<" ">>}}

InitExtract ==
    /\ pc = "extract"
    /\ summaryIn \in SummaryInputs \cup MixedInputs \cup {ScenarioASummary}
    /\ factsOut = <<>>
    /\ state = InitialState
    /\ wf = InitialState
    /\ iteration = 0
    /\ genCalls = 0
    /\ verifyCalls = 0
    /\ outcome = "none"
    /\ printed = NothingPrinted
    /\ lastDraft = <<>>
    /\ CollectorsInit

\* facts_list = extract_facts_from_summary(summary)
Extract ==
    /\ pc = "extract"
    /\ factsOut' = extract_facts_from_summary(summaryIn)
    /\ pc' = "extracted"
    /\ UNCHANGED <<state, wf, iteration, genCalls, verifyCalls, outcome,
                   printed, lastDraft, summaryIn,
                   collectorVars>>

NextExtract == Extract

SpecExtract == InitExtract /\ [][NextExtract]_vars

\* C9: extract_facts_from_summary returns at most 12 facts.
C9_AtMostTwelveFacts ==
    pc = "extracted" => Len(factsOut) <= 12

\* C9 witness: a summary with more than 12 distinct candidate facts was
\* extracted, and 12 facts came back.
C9_Witness ==
    /\ pc = "extracted"
    /\ Len(UniqueFacts(summaryIn)) > 12
    /\ Len(factsOut) = 12

\* C11: the summary of Scenario A yields exactly two facts, one per bullet
\* line: a bullet line is not added a second time by the sentence pass.
C11_ScenarioATwoFacts ==
    (pc = "extracted" /\ summaryIn = ScenarioASummary)
        => factsOut =
             << <<"R","e","v","e","n","u","e"," ","g","r","e","w"," ","4",
                  "0","%",".">>,
                <<"M","i","c","r","o","s","o","f","t"," ","a","n","n","o",
                  "u","n","c","e","d"," ","a"," ","n","e","w"," ","p","r",
                  "o","d","u","c","t",".">> >>

C13_ScenarioCPasses ==
    (Verified /\ wf.post = ScenarioCDraft /\ wf.facts = <<ScenarioCFact>>
        /\ wf.iteration_count - 1 < wf.max_iterations)
        => /\ wf.verification.ok = TRUE
           /\ wf.verification.missing_phrases = <<>>

\* C13 amended: verifying the draft of Scenario C against the one fact of
\* Scenario C finds the one phrase 'Microsoft Azure AI', flags it and gives
\* ok = false.
C13_ScenarioCFlagged ==
    (Verified /\ wf.post = ScenarioCDraft /\ wf.facts = <<ScenarioCFact>>
        /\ wf.iteration_count - 1 < wf.max_iterations)
        => /\ wf.verification.ok = FALSE
           /\ wf.verification.checked_phrases
                 = << <<"M","i","c","r","o","s","o","f","t"," ","A","z","u",
                        "r","e"," ","A","I">> >>
           /\ wf.verification.missing_phrases
                 = wf.verification.checked_phrases

\* C13 witness: the first verify call of a session examined the draft of
\* Scenario C against the one fact of Scenario C.
C13_Witness ==
    /\ Verified
    /\ verifyCalls = 1
    /\ wf.post = ScenarioCDraft
    /\ wf.facts = <<ScenarioCFact>>

\* the position of the first occurrence of x in seq
FirstIndex(seq, x) == Min({i \in 1..Len(seq) : seq[i] = x})

\* the bullet lines of the summary that pass the token test, marker stripped
BulletDerived(summary) == BulletFacts(FindBullets(summary, 1))

\* the sentences of the summary, stripped, in the order of the text
StrippedSentences(summary) ==
    LET sentences == SplitSentences(summary, 1)
    IN [i \in 1..Len(sentences) |->
            StripChars(sentences[i], {" ", "\n", "\t"})]

\* C14: the list extract_facts_from_summary returns has no two equal
\* strings, has every bullet-derived fact before every sentence-derived
\* fact, and keeps in each group the order of first occurrence.
C14_UniqueBulletsFirstInOrder ==
    pc = "extracted" =>
        LET B == BulletDerived(summaryIn)
            S == StrippedSentences(summaryIn)
            n == Len(factsOut)
        IN \A i \in 1..n : \A j \in (i + 1)..n :
              /\ factsOut[i] # factsOut[j]
              /\ factsOut[j] \in Range(B) => factsOut[i] \in Range(B)
              /\ (factsOut[i] \in Range(B) /\ factsOut[j] \in Range(B))
                    => FirstIndex(B, factsOut[i]) < FirstIndex(B, factsOut[j])
              /\ (factsOut[i] \notin Range(B) /\ factsOut[j] \notin Range(B))
                    => /\ factsOut[i] \in Range(S)
                       /\ factsOut[j] \in Range(S)
                       /\ FirstIndex(S, factsOut[i]) < FirstIndex(S, factsOut[j])

\* C14 witness: a summary whose bullets and sentences both repeat gave two
\* bullet facts followed by two sentence facts.
C14_Witness ==
    /\ pc = "extracted"
    /\ \E i, j \in 1..Len(BulletDerived(summaryIn)) :
          i # j /\ BulletDerived(summaryIn)[i] = BulletDerived(summaryIn)[j]
    /\ \E i, j \in 1..Len(StrippedSentences(summaryIn)) :
          /\ i # j
          /\ StrippedSentences(summaryIn)[i] = StrippedSentences(summaryIn)[j]
          /\ StrippedSentences(summaryIn)[i] \in Range(factsOut)
    /\ Len(factsOut) >= 4
    /\ factsOut[2] \in Range(BulletDerived(summaryIn))
    /\ factsOut[3] \notin Range(BulletDerived(summaryIn))

\* the bullet lines of the summary, each with b.strip("- ") applied
StrippedBullets(summary) ==
    LET bullets == FindBullets(summary, 1)
    IN [i \in 1..Len(bullets) |-> StripChars(bullets[i], {"-", " "})]

\* C15: every fact extract_facts_from_summary returns is a stripped bullet
\* line of 3 tokens or more, or a sentence of 5 tokens or more; a bullet of
\* fewer than 3 tokens and a sentence of fewer than 5 tokens are not facts.
C15_FactsPassTokenThresholds ==
    pc = "extracted" =>
        LET B == Range(StrippedBullets(summaryIn))
            S == Range(StrippedSentences(summaryIn))
        IN /\ \A k \in 1..Len(factsOut) :
                \/ factsOut[k] \in B /\ TokenCount(factsOut[k]) >= 3
                \/ factsOut[k] \in S /\ TokenCount(factsOut[k]) >= 5
           /\ \A b \in B : TokenCount(b) < 3 => b \notin Range(factsOut)
           /\ \A t \in S \ B : TokenCount(t) < 5 => t \notin Range(factsOut)

\* C15 witness: a summary with a bullet of 2 tokens and a sentence of 4
\* tokens gave a bullet fact of 3 tokens and a sentence fact.
C15_Witness ==
    /\ pc = "extracted"
    /\ \E b \in Range(StrippedBullets(summaryIn)) : TokenCount(b) = 2
    /\ \E t \in Range(StrippedSentences(summaryIn)) : TokenCount(t) = 4
    /\ \E k \in 1..Len(factsOut) :
          /\ TokenCount(factsOut[k]) = 3
          /\ factsOut[k] \in Range(StrippedBullets(summaryIn))
    /\ \E k \in 1..Len(factsOut) :
          /\ TokenCount(factsOut[k]) >= 5
          /\ factsOut[k] \in Range(StrippedSentences(summaryIn))

\* the last verify call of the session gave a verdict with ok = true
PassingVerdict ==
    Verified /\ Get(Get(wf, "verification", EmptyDict), "ok", FALSE)

\* C16: once a verdict with ok = true is produced, no step makes a further
\* generate_post or verify call or changes the workflow state, and the loop
\* of run ends as Passed with the draft that passed as the post.
C16_PassEndsSession ==
    [][PassingVerdict
          => /\ genCalls' = genCalls
             /\ verifyCalls' = verifyCalls
             /\ wf' = wf
             /\ lastDraft' = lastDraft
             /\ pc' \in {"report", "done"}
             /\ outcome' = "Passed"
             /\ state'.post = lastDraft
             /\ state'.verification = wf.verification]_vars

\* C16 witness: the second draft of a session passed and the session is
\* over, with that draft printed.
C16_Witness ==
    /\ pc = "done"
    /\ outcome = "Passed"
    /\ genCalls = 2
    /\ verifyCalls = 2
    /\ state.post = lastDraft
    /\ printed.post_shown

\* the last verify call of the session gave a verdict with ok = false
FailingVerdict ==
    Verified /\ ~Get(Get(wf, "verification", EmptyDict), "ok", FALSE)

\* C17: after a failing verdict a new draft is generated exactly when the
\* incremented iteration_count is below max_iterations: with budget left
\* the next node is generate_post, without it no further generate_post call
\* is made and the loop of run ends as Exhausted.
C17_NewDraftIffBudgetLeft ==
    [][FailingVerdict
          => IF wf.iteration_count < wf.max_iterations
             THEN pc \in {"loop_generate_post", "error"}
             ELSE /\ genCalls' = genCalls
                  /\ pc' \in {"report", "done"} => outcome' = "Exhausted"]_vars

C19_NoDraftWithoutChosen ==
    /\ Get(wf, "chosen", EmptyDict) = EmptyDict
          => /\ pc \notin {"phase1_generate_post", "phase1_verify",
                           "loop_generate_post", "loop_verify"}
             /\ wf.post = <<>>
             /\ wf.facts = <<>>
             /\ wf.verification = EmptyDict
             /\ wf.iteration_count = 0
    /\ ~SessionStarted
          => /\ genCalls = 0
             /\ verifyCalls = 0
             /\ state.post = <<>>
             /\ state.facts = <<>>
             /\ state.verification = EmptyDict
             /\ state.iteration_count = 0

\* C19 witness: the first invocation, without a chosen source, has
\* returned with summaries and run is about to ask for the choice.
C19_Witness ==
    /\ pc = "choose"
    /\ ~SessionStarted
    /\ Len(state.summaries) > 0
    /\ state = wf

\* C20: no step of a workflow invocation changes max_iterations or
\* 'chosen' in the workflow's state, and once a source is chosen run's
\* state keeps it and max_iterations to the end of the session.
C20_ConfigurationNeverModified ==
    [][/\ pc \notin {"phase1", "loop"}
          => /\ wf'.max_iterations = wf.max_iterations
             /\ wf'.chosen = wf.chosen
       /\ state'.max_iterations = state.max_iterations
       /\ SessionStarted => state'.chosen = state.chosen
       /\ wf'.max_iterations = state'.max_iterations]_vars

\* C20 witness: a session ran all its generate_post and verify calls and
\* run's state still holds the chosen source and max_iterations = 3.
C20_Witness ==
    /\ SessionOver
    /\ genCalls = StateMaxIterations + 1
    /\ verifyCalls = genCalls
    /\ state.max_iterations = StateMaxIterations
    /\ state.chosen = wf.chosen
    /\ state.chosen \in {SummaryPool[i] : i \in 1..Len(SummaryPool)}

\* C21: a verify call entered with iteration_count >= max_iterations
\* returns ok = false, max_iterations_reached = true, missing_phrases =
\* ['Maximum iterations reached'] and checked_phrases = [] whatever the
\* draft is, and increments iteration_count.
C21_VerifyAtMaxIgnoresDraft ==
    [][(verifyCalls' = verifyCalls + 1
          /\ wf.iteration_count >= wf.max_iterations)
          => /\ wf'.verification.ok = FALSE
             /\ wf'.verification.max_iterations_reached = TRUE
             /\ wf'.verification.missing_phrases = <<MaxIterationsPhrase>>
             /\ wf'.verification.checked_phrases = <<>>
             /\ wf'.iteration_count = wf.iteration_count + 1
             /\ wf'.post = wf.post]_vars

\* C21 witness: a draft whose one phrase the facts support was verified
\* with iteration_count = max_iterations on entry, and did not pass.
C21_Witness ==
    /\ Verified
    /\ wf.iteration_count = wf.max_iterations + 1
    /\ Len(FindCapitalPhrases(wf.post, 1)) = 1
    /\ \A i \in 1..Len(FindCapitalPhrases(wf.post, 1)) :
          Supported(FindCapitalPhrases(wf.post, 1)[i], wf.facts)
    /\ wf.verification.ok = FALSE
    /\ wf.verification.checked_phrases = <<>>

\* C22: when run asks for the choice, every choice it accepts, minus one,
\* is an index of the summaries list, so picking the chosen summary never
\* raises IndexError.
C22_ChoiceIndexInBounds ==
    /\ pc = "choose"
          => \A choice \in 1..MaxChoice : choice - 1 < Len(state.summaries)
    /\ outcome # "IndexError"

-----------------------------------------------------------------------------
(* news_tracker.py: NewsTracker.add_news_articles, called up to MaxCalls   *)
(* times on a tracker that starts empty. An article is its url, its score  *)
(* and its added_date; a url is a number.                                  *)

\* self.max_articles = 10
max_articles == 10

\* the calls made on one tracker
MaxCalls == 3
\* the length of a list of search results
BatchLen == 6
\* the scores are 0 .. ScoreLevels
ScoreLevels == 5

\* the search results for the urls lo .. lo + BatchLen - 1, scored by k, and
\* when again is set the first url once more with the highest score
Batch(lo, k, again) ==
    [i \in 1..BatchLen |->
        [url |-> lo + i - 1, score |-> ((lo + i - 1) * k) % ScoreLevels]]
    \o (IF again THEN <<[url |-> lo, score |-> ScoreLevels]>> ELSE <<>>)

Batches ==
    {<<>>} \cup {Batch(lo, k, again) :
                    lo \in {1, BatchLen + 1}, k \in 1..3, again \in BOOLEAN}

\* the loop that builds new_articles, at time now
NewArticles(search_results, now) ==
    [i \in 1..Len(search_results) |->
        [url |-> search_results[i].url,
         score |-> search_results[i].score,
         added_date |-> now]]

\* the loop of _merge_articles over new_articles; existing_urls is the set
\* computed before the loop
RECURSIVE MergeLoop(_, _, _)
MergeLoop(tracked, new_articles, existing_urls) ==
    IF new_articles = <<>> THEN tracked
    ELSE LET new_article == Head(new_articles)
             lower == {i \in 1..Len(tracked) :
                          /\ tracked[i].url = new_article.url
                          /\ new_article.score > tracked[i].score}
         IN MergeLoop(
                IF new_article.url \notin existing_urls
                THEN Append(tracked, new_article)
                ELSE IF lower # {}
                THEN [tracked EXCEPT ![Min(lower)] = new_article]
                ELSE tracked,
                Tail(new_articles), existing_urls)

\* NewsTracker._merge_articles
merge_articles(tracked, new_articles) ==
    MergeLoop(tracked, new_articles,
              {tracked[i].url : i \in 1..Len(tracked)})

\* a put into sorted, which is sorted by score descending, after the
\* entries whose score is not lower
InsertByScore(sorted, a) ==
    LET before == Cardinality({i \in 1..Len(sorted) : sorted[i].score >= a.score})
    IN SubSeq(sorted, 1, before) \o <<a>> \o SubSeq(sorted, before + 1, Len(sorted))

\* a put into sorted, which is sorted by score ascending
InsertByScoreAscending(sorted, a) ==
    LET before == Cardinality({i \in 1..Len(sorted) : sorted[i].score <= a.score})
    IN SubSeq(sorted, 1, before) \o <<a>> \o SubSeq(sorted, before + 1, Len(sorted))

\* SortedByScore without reverse=True
RECURSIVE SortedByScoreAscending(_)
SortedByScoreAscending(articles) ==
    IF articles = <<>> THEN <<>>
    ELSE InsertByScoreAscending(
            SortedByScoreAscending(SubSeq(articles, 1, Len(articles) - 1)),
            articles[Len(articles)])

\* sorted(articles, key=lambda x: x.score, reverse=True): stable
RECURSIVE SortedByScore(_)
SortedByScore(articles) ==
    IF articles = <<>> THEN <<>>
    ELSE InsertByScore(SortedByScore(SubSeq(articles, 1, Len(articles) - 1)),
                       articles[Len(articles)])

\* NewsTracker.add_news_articles(search_results)
AddNewsArticles ==
    /\ clock < MaxCalls
    /\ \E search_results \in Batches :
         LET new_articles == NewArticles(search_results, clock)
             merged == merge_articles(tracked_news, new_articles)
             ranked == SortedByScore(merged)
         IN /\ tracked_news' = SubSeq(ranked, 1, Min({Len(ranked), max_articles}))
            /\ dropped' = dropped \cup
                             {ranked[i] : i \in (max_articles + 1)..Len(ranked)}
            /\ offered' = offered \cup
                             {[url |-> search_results[i].url,
                               score |-> search_results[i].score] :
                                 i \in 1..Len(search_results)}
    /\ clock' = clock + 1
    /\ UNCHANGED <<cliVars, seriesVars, historyVars, searchVars>>

NextTracker == AddNewsArticles

SpecTracker == Init /\ [][NextTracker]_vars

\* C23: after every add_news_articles call tracked_news holds at most 10
\* articles, sorted by score descending, and no article the slice cut has
\* a higher score than a kept one.
C23_TopTenSortedByScore ==
    /\ Len(tracked_news) <= 10
    /\ \A i \in 1..Len(tracked_news) : \A j \in (i + 1)..Len(tracked_news) :
          tracked_news[i].score >= tracked_news[j].score
    /\ \A d \in dropped : \A i \in 1..Len(tracked_news) :
          d.score <= tracked_news[i].score

\* C23 witness: after two calls or more the tracker is full, holds
\* articles of different scores and of different calls, and has cut some.
C23_Witness ==
    /\ clock >= 2
    /\ Len(tracked_news) = 10
    /\ dropped # {}
    /\ tracked_news[1].score > tracked_news[10].score
    /\ tracked_news[1].added_date # tracked_news[10].added_date

-----------------------------------------------------------------------------
(* time_series_collector.py: TimeSeriesCollector.add_snapshot and          *)
(* remove_snapshot_by_date, called up to MaxSeriesCalls times on a         *)
(* collector that starts empty. A snapshot is its date and its timestamp;  *)
(* a date is a number.                                                     *)

\* the calls made on one collector
MaxSeriesCalls == 5
\* the dates are 1 .. MaxDates
MaxDates == 3

\* get_snapshot_by_date: <<>> stands for None, <<s>> for the snapshot s
get_snapshot_by_date(snaps, date) ==
    LET found == {i \in 1..Len(snaps) : snaps[i].date = date}
    IN IF found = {} THEN <<>> ELSE <<snaps[Min(found)]>>

\* the list remove_snapshot_by_date leaves
remove_snapshot_by_date(snaps, date) ==
    SelectSeq(snaps, LAMBDA x : x.date # date)

\* add_snapshot without the removal of the existing snapshot
add_snapshot_appending(snaps, snapshot) == Append(snaps, snapshot)

\* the list add_snapshot leaves
add_snapshot(snaps, snapshot) ==
    LET existing_snapshot == get_snapshot_by_date(snaps, snapshot.date)
    IN IF existing_snapshot # <<>>
       THEN Append(remove_snapshot_by_date(snaps, snapshot.date), snapshot)
       ELSE Append(snaps, snapshot)

\* TimeSeriesCollector.add_snapshot(snapshot)
AddSnapshot ==
    /\ seriesClock < MaxSeriesCalls
    /\ \E date \in 1..MaxDates :
         LET snapshot == [date |-> date, timestamp |-> seriesClock]
         IN /\ snapshots' = add_snapshot(snapshots, snapshot)
            /\ lastSnapshot' =
                 <<snapshot>> \o get_snapshot_by_date(snapshots, date)
    /\ seriesClock' = seriesClock + 1
    /\ UNCHANGED <<cliVars, trackerVars, historyVars, searchVars>>

\* TimeSeriesCollector.remove_snapshot_by_date(date)
RemoveSnapshotByDate ==
    /\ seriesClock < MaxSeriesCalls
    /\ \E date \in 1..MaxDates :
         snapshots' = remove_snapshot_by_date(snapshots, date)
    /\ seriesClock' = seriesClock + 1
    /\ UNCHANGED <<lastSnapshot, cliVars, trackerVars, historyVars, searchVars>>

NextSeries == AddSnapshot \/ RemoveSnapshotByDate

SpecSeries == Init /\ [][NextSeries]_vars

\* C25: after every add_snapshot or remove_snapshot_by_date call the list
\* holds at most one snapshot per date; an add_snapshot call leaves the
\* new snapshot as the only one of its date, and the snapshots of the
\* other dates as they were.
C25_OneSnapshotPerDate ==
    [][/\ \A i \in 1..Len(snapshots') : \A j \in (i + 1)..Len(snapshots') :
            snapshots'[i].date # snapshots'[j].date
       /\ lastSnapshot' # lastSnapshot
            => LET new == lastSnapshot'[1]
               IN /\ SelectSeq(snapshots', LAMBDA x : x.date = new.date)
                        = <<new>>
                  /\ SelectSeq(snapshots', LAMBDA x : x.date # new.date)
                        = SelectSeq(snapshots, LAMBDA x : x.date # new.date)]_vars

\* C25 witness: a snapshot was added for a date that had an older one,
\* next to a snapshot of another date, and took the older one's place.
C25_Witness ==
    /\ Len(lastSnapshot) = 2
    /\ lastSnapshot[1].date = lastSnapshot[2].date
    /\ lastSnapshot[1].timestamp # lastSnapshot[2].timestamp
    /\ Len(snapshots) = 2
    /\ snapshots[2] = lastSnapshot[1]
    /\ snapshots[1].date # snapshots[2].date

-----------------------------------------------------------------------------
(* historical_data_collector.py: collect_historical_data, called up to     *)
(* MaxHistoryCalls times on a collector that starts empty, one step per    *)
(* day of the range. A data point is its date and what was collected; a    *)
(* date is a number.                                                       *)

\* the calls made on one collector
MaxHistoryCalls == 2
\* the days argument is 1 .. MaxDays
MaxDays == 3
\* datetime.now().date()
Today == MaxDays

\* the date of step i of the loop: start_date + timedelta(days=i)
TargetDate(c) == (Today - (c.days - 1)) + c.i

\* the dates of the range of the call
DateRange(c) == (Today - (c.days - 1))..Today

\* the data points of date in data
PointsOf(data, date) == SelectSeq(data, LAMBDA x : x.date = date)

\* the two statements that store a data point, without the removal
store_appending(data, data_point) == Append(data, data_point)

\* the two statements that store a data point: removal of the existing data
\* of the date, then append
store_data_point(data, data_point) ==
    Append(SelectSeq(data, LAMBDA x : x.date # data_point.date), data_point)

\* collect_historical_data(days, force_recollect), up to the loop
StartCollect ==
    /\ collection.phase \in {"idle", "returned"}
    /\ historyCalls < MaxHistoryCalls
    /\ \E days \in 1..MaxDays, force_recollect \in BOOLEAN :
         collection' =
             [phase |-> "loop", days |-> days,
              force_recollect |-> force_recollect, i |-> 0,
              existing_dates |->
                  {historical_data[k].date : k \in 1..Len(historical_data)},
              collected_days |-> <<>>, failed_days |-> <<>>,
              skipped_days |-> {}, before |-> historical_data]
    /\ historyCalls' = historyCalls + 1
    /\ UNCHANGED <<historical_data, cliVars, trackerVars, seriesVars,
                   searchVars>>

\* a step of the loop that skips its date
SkipDay ==
    /\ collection.phase = "loop"
    /\ collection.i < collection.days
    /\ TargetDate(collection) \in collection.existing_dates
    /\ ~collection.force_recollect
    /\ collection' =
         [collection EXCEPT
            !.skipped_days = @ \cup {TargetDate(collection)},
            !.i = @ + 1]
    /\ UNCHANGED <<historical_data, historyCalls, cliVars, trackerVars,
                   seriesVars, searchVars>>

\* a step of the loop in which _collect_single_day_data returns a data point
CollectDay ==
    /\ collection.phase = "loop"
    /\ collection.i < collection.days
    /\ ~(TargetDate(collection) \in collection.existing_dates
          /\ ~collection.force_recollect)
    /\ historical_data' =
         store_data_point(historical_data,
             [date |-> TargetDate(collection), articles |-> historyCalls])
    /\ collection' =
         [collection EXCEPT
            !.collected_days = Append(@, TargetDate(collection)),
            !.i = @ + 1]
    /\ UNCHANGED <<historyCalls, cliVars, trackerVars, seriesVars, searchVars>>

\* a step of the loop in which _collect_single_day_data returns None or
\* raises
CollectDayFails ==
    /\ collection.phase = "loop"
    /\ collection.i < collection.days
    /\ ~(TargetDate(collection) \in collection.existing_dates
          /\ ~collection.force_recollect)
    /\ collection' =
         [collection EXCEPT
            !.failed_days = Append(@, TargetDate(collection)),
            !.i = @ + 1]
    /\ UNCHANGED <<historical_data, historyCalls, cliVars, trackerVars,
                   seriesVars, searchVars>>

\* the loop is over: save_historical_data() and the return statement
ReturnCollected ==
    /\ collection.phase = "loop"
    /\ collection.i = collection.days
    /\ collection' = [collection EXCEPT !.phase = "returned"]
    /\ UNCHANGED <<historical_data, historyCalls, cliVars, trackerVars,
                   seriesVars, searchVars>>

NextHistory ==
    StartCollect \/ SkipDay \/ CollectDay \/ CollectDayFails \/ ReturnCollected

SpecHistory == Init /\ [][NextHistory]_vars

\* the number of entries of seq equal to x
Occurrences(seq, x) == Cardinality({k \in 1..Len(seq) : seq[k] = x})

\* C26: when collect_historical_data returns, every date of the range was
\* skipped (it had data and force_recollect is false) or is once in exactly
\* one of collected_days and failed_days; historical_data has at most one
\* data point per date, and a failed date has the data it had before.
C26_EveryDateSkippedCollectedOrFailed ==
    /\ \A a \in 1..Len(historical_data) : \A b \in (a + 1)..Len(historical_data) :
          historical_data[a].date # historical_data[b].date
    /\ collection.phase = "returned"
          => \A d \in DateRange(collection) :
                LET skipped == d \in collection.skipped_days
                    collected == Occurrences(collection.collected_days, d)
                    failed == Occurrences(collection.failed_days, d)
                IN /\ skipped
                        => /\ PointsOf(collection.before, d) # <<>>
                           /\ ~collection.force_recollect
                           /\ collected + failed = 0
                   /\ ~skipped => collected + failed = 1
                   /\ failed = 1
                        => PointsOf(historical_data, d)
                             = PointsOf(collection.before, d)

\* C26 witness: a forced call over three days, on a collector that had
\* data, returned with a collected day and a failed day that had data.
C26_Witness ==
    /\ collection.phase = "returned"
    /\ collection.force_recollect
    /\ collection.days = 3
    /\ Len(collection.collected_days) >= 1
    /\ \E k \in 1..Len(collection.failed_days) :
          /\ PointsOf(collection.before, collection.failed_days[k]) # <<>>
          /\ PointsOf(historical_data, collection.failed_days[k])
                = PointsOf(collection.before, collection.failed_days[k])
    /\ \E k \in 1..Len(collection.collected_days) :
          PointsOf(collection.before, collection.collected_days[k]) # <<>>

-----------------------------------------------------------------------------
(* search.py: search_ai_news, called once with a state dict and the hits   *)
(* its queries return. A hit is its title, its url and its score; a url is *)
(* a number, and NoUrl stands for a url that is None or empty.             *)

\* the hits the queries return together
MaxHits == 3
\* the urls are 1 .. MaxSearchUrl
MaxSearchUrl == 2
\* the scores are 0 .. MaxSearchScore
MaxSearchScore == 2

\* a url for which `not url` holds
NoUrl == 0

\* the hits of the queries, in the order they are aggregated; the title
\* tells the hits apart
HitLists ==
    {[i \in 1..Len(q) |-> [title |-> i, url |-> q[i][1], score |-> q[i][2]]] :
        q \in SeqsUpTo(({NoUrl} \cup (1..MaxSearchUrl)) \X (0..MaxSearchScore),
                       MaxHits)}

\* the state dicts search_ai_news is called with
SearchStates ==
    { InitialState,
      [queries |-> <<"AI productivity tools">>,
       results |-> <<[title |-> 0, url |-> 1, score |-> 1]>>] }

\* the loop over aggregated that keeps the last hit of a url, whatever its
\* score
RECURSIVE DedupLoopKeepingLast(_, _)
DedupLoopKeepingLast(hits, by_url) ==
    IF hits = <<>> THEN by_url
    ELSE LET r == Head(hits)
             prev == {k \in 1..Len(by_url) : by_url[k].url = r.url}
         IN DedupLoopKeepingLast(Tail(hits),
                IF r.url = NoUrl THEN by_url
                ELSE IF prev = {} THEN Append(by_url, r)
                ELSE [by_url EXCEPT ![Min(prev)] = r])

\* the loop over aggregated: by_url, as the list of its values in the order
\* of insertion of their keys
RECURSIVE DedupLoop(_, _)
DedupLoop(hits, by_url) ==
    IF hits = <<>> THEN by_url
    ELSE LET r == Head(hits)
             prev == {k \in 1..Len(by_url) : by_url[k].url = r.url}
         IN DedupLoop(Tail(hits),
                IF r.url = NoUrl THEN by_url
                ELSE IF prev = {} THEN Append(by_url, r)
                ELSE IF r.score > by_url[Min(prev)].score
                THEN [by_url EXCEPT ![Min(prev)] = r]
                ELSE by_url)

\* the dict search_ai_news returns: {**state, "results": deduped}
search_ai_news(st, hits) ==
    LET deduped == SortedByScore(DedupLoop(hits, <<>>))
    IN [key \in DOMAIN st \cup {"results"} |->
            IF key = "results" THEN deduped ELSE st[key]]

\* search_ai_news(state)
SearchAiNews ==
    /\ searchOut = <<>>
    /\ \E st \in SearchStates, hits \in HitLists :
         /\ searchIn' = st
         /\ aggregated' = hits
         /\ searchOut' = search_ai_news(st, hits)
    /\ UNCHANGED <<cliVars, trackerVars, seriesVars, historyVars>>

NextSearch == SearchAiNews

SpecSearch == Init /\ [][NextSearch]_vars

\* C27: the results of search_ai_news hold at most one entry per url, that
\* entry being a hit of highest score among the hits of its url, hold no
\* entry without a url, are sorted by score descending, and every other
\* key of the state is returned unchanged.
C27_ResultsBestPerUrlSorted ==
    searchOut # <<>> =>
        LET results == searchOut.results
            n == Len(results)
        IN /\ \A i \in 1..n : \A j \in (i + 1)..n :
                /\ results[i].url # results[j].url
                /\ results[i].score >= results[j].score
           /\ \A i \in 1..n :
                /\ results[i].url # NoUrl
                /\ \E k \in 1..Len(aggregated) : aggregated[k] = results[i]
                /\ \A k \in 1..Len(aggregated) :
                      aggregated[k].url = results[i].url
                          => aggregated[k].score <= results[i].score
           /\ DOMAIN searchOut = DOMAIN searchIn \cup {"results"}
           /\ \A key \in DOMAIN searchIn \ {"results"} :
                searchOut[key] = searchIn[key]

\* C27 witness: the hits held a url twice, the second time with the lower
\* score, and a hit without url; the results hold the first hit only, and
\* the state's old results were replaced.
C27_Witness ==
    /\ searchOut # <<>>
    /\ Len(aggregated) = 3
    /\ aggregated[1].url = aggregated[2].url
    /\ aggregated[1].score > aggregated[2].score
    /\ aggregated[3].url = NoUrl
    /\ searchOut.results = <<aggregated[1]>>
    /\ "results" \in DOMAIN searchIn
    /\ searchOut.queries = searchIn.queries

====
